---------------------------- MODULE Spec2Model ----------------------------
(***************************************************************************)
(* Model of olclient2.entity_helpers.work: Work.search (validation, the    *)
(* HTTP request, the dedup pass, Work._doc_to_book), Work.search_by_isbn   *)
(* and the paginated traversal Work.editions.                              *)
(*                                                                         *)
(* Data conventions.                                                       *)
(*   - A Python str is the sequence of its code points ("Ab" = <<65,98>>), *)
(*     so that str.lower(), len() and the ordering used by sorted() are    *)
(*     computed, not assumed.  The empty str is <<>>.                      *)
(*   - An Optional value is None == <<>> or Some(x) == <<x>>.              *)
(*   - An object or dict with optional members carries the set `has` of    *)
(*     the members it really has (hasattr / `in` / .get); a member that is *)
(*     not in `has` holds a fixed filler value that is never read.         *)
(*   - A Document of results.docs is referred to by its position in        *)
(*     results.docs (an object reference).                                 *)
(***************************************************************************)
EXTENDS Integers, Sequences, FiniteSets, TLC

VARIABLES
    pc,            \* "idle" | "search_wait" | "isbn_wait" | "editions_wait" | "done"
    op,            \* "none" | "search" | "search_by_isbn" | "editions"
    title,         \* search(title=...)      Optional[str]
    author,        \* search(author=...)     Optional[str]
    limit,         \* search(limit=...)      Optional[int]
    isbn,          \* search_by_isbn(isbn)   str
    url,           \* the query built by the running call
    httpCalls,     \* number of cls.OL.session.get calls issued so far
    roundTrips,    \* number of calls of the backoff-wrapped getter so far
    failures,      \* number of cls.OL.session.get calls that raised so far
    results,       \* Results(**response.json()) of search
    data,          \* response.json() of search_by_isbn
    seen_works,    \* the ordered dict of the dedup pass: <<[key, doc]>>
    deduped_docs,  \* list(seen_works.values())[:limit], as positions
    result,        \* what the call returned or raised
    self_olid,     \* self.olid of the Work whose editions are listed
    requests,      \* the urls requested by editions so far, in order
    pages,         \* the r_json values editions has received so far, in order
    editions       \* the local list `editions` of Work.editions

\* the variables of Work.editions alone
editionsVars == <<self_olid, requests, pages, editions>>
\* the variables of the two searches alone
searchVars == <<title, author, limit, isbn, url, roundTrips, failures, results, data,
                seen_works, deduped_docs>>

vars == <<pc, op, title, author, limit, isbn, url, httpCalls, roundTrips, failures,
          results, data, seen_works, deduped_docs, result, self_olid, requests, pages,
          editions>>

----------------------------------------------------------------------------
(* Bounds of the model. *)

\* longest docs list of a search response checked by the dedup specification
MaxDocs == 3
\* longest docs list of a search response in the full specification
MaxNormDocs == 1
\* largest limit passed to search
MaxLimit == 2
\* longest isbn array of a document
MaxIsbns == 2
\* longest `key` of a document checked by the key specification
MaxKeyLen == 3
\* max_tries of cls.OL.BACKOFF_KWARGS: the attempts backoff makes before it
\* gives up
MaxTries == 2
\* longest chain of pages of the editions of a work
MaxPages == 3

----------------------------------------------------------------------------
(* Python values. *)

None == <<>>
Some(x) == <<x>>
IsNone(o) == o = <<>>
Val(o) == o[1]

\* truthiness of an Optional[str]: None and '' are falsy
TruthyStr(o) == ~IsNone(o) /\ Len(Val(o)) > 0
\* truthiness of an Optional[int]: None and 0 are falsy
TruthyInt(o) == ~IsNone(o) /\ Val(o) # 0

SeqsUpTo(S, n) == UNION {[1..k -> S] : k \in 0..n}

\* str.lower() on ASCII text
LowerChar(c) == IF c >= 65 /\ c <= 90 THEN c + 32 ELSE c
Lower(s) == [i \in 1..Len(s) |-> LowerChar(s[i])]

\* the order of str used by sorted(): lexicographic on code points
RECURSIVE StrLeq(_, _)
StrLeq(a, b) ==
    IF Len(a) = 0 THEN TRUE
    ELSE IF Len(b) = 0 THEN FALSE
    ELSE IF a[1] < b[1] THEN TRUE
    ELSE IF a[1] > b[1] THEN FALSE
    ELSE StrLeq(Tail(a), Tail(b))

\* insert x into the sorted list s, after the elements equal to it (stable)
RECURSIVE Insert(_, _)
Insert(x, s) ==
    IF Len(s) = 0 THEN <<x>>
    ELSE IF StrLeq(s[1], x) THEN <<s[1]>> \o Insert(x, Tail(s))
    ELSE <<x>> \o s

RECURSIVE Sorted(_)
Sorted(s) == IF Len(s) = 0 THEN <<>> ELSE Insert(s[Len(s)], Sorted(SubSeq(s, 1, Len(s) - 1)))


----------------------------------------------------------------------------
(* Input domains. *)

TitleAb == <<65, 98>>           \* "Ab"
Titleab == <<97, 98>>           \* "ab"
NameX == <<88>>                 \* "X"
NameY == <<89>>                 \* "Y"
OlidK1 == <<79, 76, 49, 65>>    \* "OL1A"
OlidK2 == <<79, 76, 50, 65>>    \* "OL2A"
PubP == <<80>>                  \* "P"
PubQ == <<81>>                  \* "Q"
Date1 == <<49, 57>>             \* "19"
WorkKey == <<47, 119, 111, 114, 107, 115, 47, 79, 76, 49, 87>>   \* "/works/OL1W"

\* an element of Document.authors: a dict with 'name' and, optionally, 'olid'
AuthorDict(name, olid) == [name |-> name, olid |-> olid]

\* a Document of results.docs: `has` are the attributes in vars(doc) that the
\* code probes with hasattr, `extra` is the number of its other attributes
Document(has, t, as, pub, date, key, extra) ==
    [has |-> has, title |-> t, authors |-> as, publisher |-> pub,
     publish_date |-> date, key |-> key, extra |-> extra]

\* documents that differ in the case of the title, in the order and the
\* multiplicity of the author names, and in the number of attributes
DedupDocs ==
    {Document({"title", "authors", "key"}, t, as, <<>>, <<>>, WorkKey, extra) :
        t \in {TitleAb, Titleab},
        as \in {<<AuthorDict(NameX, Some(OlidK1)), AuthorDict(NameY, None)>>,
                <<AuthorDict(NameY, None), AuthorDict(NameX, Some(OlidK1))>>,
                <<AuthorDict(NameY, None), AuthorDict(NameX, Some(OlidK1)),
                  AuthorDict(NameY, Some(OlidK2))>>},
        extra \in {0, 1}}

\* the choices for an optional member: not there, or there with one of `values`
FieldOpts(values) == {<<FALSE, <<>>>>} \cup {<<TRUE, v>> : v \in values}
\* the members that are there, of a choice f for every member
Present(f) == {name \in DOMAIN f : f[name][1]}

\* documents that differ in which optional attributes they have
NormDocs ==
    {Document(Present([title |-> t, authors |-> as, publisher |-> pub,
                       publish_date |-> date, key |-> key]),
              t[2], as[2], pub[2], date[2], key[2], 0) :
        t \in FieldOpts({TitleAb}),
        as \in FieldOpts({<<AuthorDict(NameX, Some(OlidK1)), AuthorDict(NameY, None)>>}),
        pub \in FieldOpts({<<>>, <<PubP, PubQ>>}),
        date \in FieldOpts({<<>>, <<Date1>>}),
        key \in FieldOpts({WorkKey})}

\* keys with and without '/', with a leading, a trailing and a doubled '/':
\* the texts over '/', 'W' and '1' up to MaxKeyLen characters, and "/works/OL1W"
KeyValues == SeqsUpTo({47, 87, 49}, MaxKeyLen) \cup {WorkKey}

\* documents that differ in their key only, and may have none
KeyDocs ==
    {Document({"title", "authors"} \cup Present([key |-> key]),
              TitleAb, <<AuthorDict(NameX, None)>>, <<>>, <<>>, key[2], 0) :
        key \in FieldOpts(KeyValues)}

\* num_found as reported by the endpoint; it need not agree with len(docs)
NumFoundValues == {0, 3}

TitleArgs == {None, Some(<<>>), Some(TitleAb)}
AuthorArgs == {None, Some(<<>>), Some(NameX)}
LimitArgs == {None} \cup {Some(n) : n \in 0..MaxLimit}

NoResults == [num_found |-> 0, docs |-> <<>>]
NoData == [has |-> {}, docs |-> <<>>]
NoUrl == [kind |-> "none", title |-> None, author |-> None, limit |-> None, isbn |-> <<>>]


----------------------------------------------------------------------------
(* Work.search: validation and the request. *)

\* a validation that tests for None only
InvalidQueryNoneOnly(t, a) == IsNone(t) /\ IsNone(a)

\* `not (title or author)`
InvalidQuery(t, a) == ~(TruthyStr(t) \/ TruthyStr(a))

\* the query string: each parameter is appended only when it is truthy
BuildUrl(t, a, l) ==
    [kind |-> "search",
     title |-> IF TruthyStr(t) THEN t ELSE None,
     author |-> IF TruthyStr(a) THEN a ELSE None,
     limit |-> IF TruthyInt(l) THEN l ELSE None,
     isbn |-> <<>>]

\* a getter that sends the request twice
IssueGetTwice(n) == n + 2

\* `cls.OL.session.get(ol_url)`: one more HTTP request
IssueGet(n) == n + 1

\* backoff.on_exception calls the getter again after an attempt that raised
\* while fewer than max_tries attempts have been made
BackoffRetries(tries) == tries < MaxTries

----------------------------------------------------------------------------
(* Work.search: the dedup pass. *)

\* hasattr(doc, name)
HasAttr(doc, name) == name \in doc.has

\* len(vars(doc))
AttrCount(doc) == Cardinality(doc.has) + doc.extra

\* `author['name'] for author in doc.authors`
AuthorNames(doc) == [i \in 1..Len(doc.authors) |-> doc.authors[i].name]

\* a key whose title keeps its case
DedupKeyCaseSensitive(doc) ==
    <<IF HasAttr(doc, "title") THEN doc.title ELSE <<>>,
      IF HasAttr(doc, "authors") THEN Sorted(AuthorNames(doc)) ELSE <<>>>>

\* a key whose author names keep their order
DedupKeyUnsorted(doc) ==
    <<IF HasAttr(doc, "title") THEN Lower(doc.title) ELSE <<>>,
      IF HasAttr(doc, "authors") THEN AuthorNames(doc) ELSE <<>>>>

\* dedup_key = (title, authors)
DedupKey(doc) ==
    <<IF HasAttr(doc, "title") THEN Lower(doc.title) ELSE <<>>,
      IF HasAttr(doc, "authors") THEN Sorted(AuthorNames(doc)) ELSE <<>>>>

\* position of `key` in the ordered dict `seen`, 0 when it is not in it
RECURSIVE KeyIndex(_, _)
KeyIndex(seen, key) ==
    IF Len(seen) = 0 THEN 0
    ELSE IF seen[Len(seen)].key = key THEN Len(seen)
    ELSE KeyIndex(SubSeq(seen, 1, Len(seen) - 1), key)

\* a replacement that also happens on equal counts
ReplacesOnTie(docs, seen, dedup_key, i) ==
    LET k == KeyIndex(seen, dedup_key)
    IN  k = 0 \/ AttrCount(docs[i]) >= AttrCount(docs[seen[k].doc])

\* `dedup_key not in seen_works or len(vars(doc)) > len(vars(seen_works[dedup_key]))`
Replaces(docs, seen, dedup_key, i) ==
    LET k == KeyIndex(seen, dedup_key)
    IN  k = 0 \/ AttrCount(docs[i]) > AttrCount(docs[seen[k].doc])

\* `seen_works[dedup_key] = doc`: a new key goes to the end of the dict, a
\* key already in it keeps its place
Store(seen, dedup_key, i) ==
    LET k == KeyIndex(seen, dedup_key)
    IN  IF k = 0 THEN Append(seen, [key |-> dedup_key, doc |-> i])
        ELSE [seen EXCEPT ![k] = [key |-> dedup_key, doc |-> i]]

\* one iteration of the loop, on document i with its key, with the dict as it
\* stands
DedupStep(docs, seen, dedup_key, i) ==
    IF Replaces(docs, seen, dedup_key, i) THEN Store(seen, dedup_key, i) ELSE seen

\* the loop `for doc in results.docs` over the first n documents
RECURSIVE DedupPass(_, _)
DedupPass(docs, n) ==
    IF n = 0 THEN <<>>
    ELSE DedupStep(docs, DedupPass(docs, n - 1), DedupKey(docs[n]), n)

\* a conversion to a list that does not cut it
TruncateNothing(seen, l) == [j \in 1..Len(seen) |-> seen[j].doc]

\* list(seen_works.values())[:limit], for a limit > 0
Truncate(seen, l) ==
    [j \in 1..(IF Len(seen) < l THEN Len(seen) ELSE l) |-> seen[j].doc]


----------------------------------------------------------------------------
(* Book records and Work._doc_to_book. *)

\* an Author object; has_olid tells whether it has an `olid` attribute at all
Author(name, has_olid, olid) == [name |-> name, has_olid |-> has_olid, olid |-> olid]

NoIdentifiers == [olid |-> <<>>, isbn_10 |-> <<>>, isbn_13 |-> <<>>]

\* Book(title=..., authors=..., publisher=..., publish_date=...)
Book(t, as, pub, date) ==
    [title |-> t, authors |-> as, publisher |-> pub, publish_date |-> date,
     identifiers |-> NoIdentifiers]

\* book.add_id(kind, value): a kind is in the identifiers mapping exactly when
\* its list of values is not empty
AddId(book, kind, value) ==
    [book EXCEPT !.identifiers[kind] = Append(@, value)]

\* s.split('/')[-1]: what follows the last '/' of s (all of s without a '/')
RECURSIVE LastSegment(_)
LastSegment(s) ==
    IF Len(s) = 0 THEN <<>>
    ELSE IF s[Len(s)] = 47 THEN <<>>
    ELSE Append(LastSegment(SubSeq(s, 1, Len(s) - 1)), s[Len(s)])

NoBook == Book(<<>>, <<>>, <<>>, <<>>)
Returned(b) == [raised |-> "", book |-> b]
Raised(e) == [raised |-> e, book |-> NoBook]

\* `getattr(doc, name, [''])[0] if hasattr(doc, name) else ''` fails with
\* IndexError exactly when the attribute is there and is an empty list
FirstOfAttrRaises(doc, name, value) == HasAttr(doc, name) /\ Len(value) = 0
FirstOfAttr(doc, name, value) == IF HasAttr(doc, name) THEN value[1] ELSE <<>>

\* Author(name=author['name'], olid=author.get('olid')) for each author
DocAuthors(doc) ==
    IF HasAttr(doc, "authors")
    THEN [i \in 1..Len(doc.authors) |->
             Author(doc.authors[i].name, TRUE, doc.authors[i].olid)]
    ELSE <<>>

\* Work._doc_to_book(doc): the Book, or the exception it raises
DocToBook(doc) ==
    IF FirstOfAttrRaises(doc, "publisher", doc.publisher)
       \/ FirstOfAttrRaises(doc, "publish_date", doc.publish_date)
    THEN Raised("IndexError")
    ELSE LET book == Book(IF HasAttr(doc, "title") THEN doc.title ELSE <<>>,
                          DocAuthors(doc),
                          FirstOfAttr(doc, "publisher", doc.publisher),
                          FirstOfAttr(doc, "publish_date", doc.publish_date))
         IN  Returned(IF HasAttr(doc, "key")
                      THEN AddId(book, "olid", LastSegment(doc.key))
                      ELSE book)

\* results.first.to_book(): the first document through the document
\* normalizer; it fails when there is no first document
FirstToBook(docs) ==
    IF Len(docs) = 0 THEN Raised("EmptyResultError")
    ELSE LET doc == docs[1]
             first(name, value) ==
                 IF HasAttr(doc, name) /\ Len(value) > 0 THEN value[1] ELSE <<>>
             book == Book(IF HasAttr(doc, "title") THEN doc.title ELSE <<>>,
                          DocAuthors(doc),
                          first("publisher", doc.publisher),
                          first("publish_date", doc.publish_date))
         IN  Returned(IF HasAttr(doc, "key")
                      THEN AddId(book, "olid", LastSegment(doc.key))
                      ELSE book)

----------------------------------------------------------------------------
(* What a call returns. *)

Pending == [kind |-> "pending", books |-> <<>>, error |-> ""]
ReturnNone == [kind |-> "None", books |-> <<>>, error |-> ""]
ReturnBook(b) == [kind |-> "Book", books |-> <<b>>, error |-> ""]
ReturnList(bs) == [kind |-> "List", books |-> bs, error |-> ""]
Raise(e) == [kind |-> "Raise", books |-> <<>>, error |-> e]

\* `[cls._doc_to_book(doc) for doc in deduped_docs]`
BooksOf(docs, deduped) ==
    LET out == [j \in 1..Len(deduped) |-> DocToBook(docs[deduped[j]])]
    IN  IF \E j \in 1..Len(out) : out[j].raised # ""
        THEN Raise("IndexError")
        ELSE ReturnList([j \in 1..Len(out) |-> out[j].book])

\* the debug line before the pass reads results.docs[0].authors whenever
\* results.docs is not empty
FirstAuthorsRaises(docs) == Len(docs) > 0 /\ ~HasAttr(docs[1], "authors")

\* the dedup pass runs when num_found and limit are both truthy
PassRuns(nf, docs, l) == ~FirstAuthorsRaises(docs) /\ nf # 0 /\ TruthyInt(l)

\* the part of Work.search that follows the response; `deduped` is the list
\* deduped_docs when the dedup pass runs
SearchResult(nf, docs, l, deduped) ==
    IF FirstAuthorsRaises(docs) THEN Raise("AttributeError")
    ELSE IF nf # 0
    THEN IF TruthyInt(l)
         THEN BooksOf(docs, deduped)
         ELSE LET b == FirstToBook(docs)
              IN  IF b.raised # "" THEN Raise(b.raised) ELSE ReturnBook(b.book)
    ELSE ReturnNone

----------------------------------------------------------------------------
(* Work.search as two steps: up to the request, and from the response. *)

SearchCall(t, a, l) ==
    /\ pc = "idle"
    /\ op' = "search"
    /\ title' = t
    /\ author' = a
    /\ limit' = l
    /\ IF InvalidQuery(t, a)
       THEN /\ pc' = "done"
            /\ result' = Raise("ValueError")
            /\ UNCHANGED <<url, httpCalls, roundTrips>>
       ELSE /\ pc' = "search_wait"
            /\ url' = BuildUrl(t, a, l)
            /\ roundTrips' = roundTrips + 1
            /\ httpCalls' = IssueGet(httpCalls)
            /\ UNCHANGED result
    /\ UNCHANGED <<isbn, failures, results, data, seen_works, deduped_docs>>
    /\ UNCHANGED editionsVars

SearchResponse(nf, docs) ==
    /\ pc = "search_wait"
    /\ pc' = "done"
    /\ results' = [num_found |-> nf, docs |-> docs]
    /\ seen_works' = IF PassRuns(nf, docs, limit) THEN DedupPass(docs, Len(docs)) ELSE <<>>
    /\ deduped_docs' = IF PassRuns(nf, docs, limit)
                       THEN Truncate(seen_works', Val(limit))
                       ELSE <<>>
    /\ result' = SearchResult(nf, docs, limit, deduped_docs')
    /\ UNCHANGED <<op, title, author, limit, isbn, url, httpCalls, roundTrips, failures, data>>
    /\ UNCHANGED editionsVars

----------------------------------------------------------------------------
(* Work.search_by_isbn. *)

\* ISBN values of 13, 10 and 9 characters
Isbn13 == [i \in 1..13 |-> 48 + (i % 10)]
Isbn10 == [i \in 1..10 |-> 48 + (i % 10)]
Isbn9 == [i \in 1..9 |-> 48 + (i % 10)]

\* a raw document of data['docs']: a dict, `has` are the keys it has
RawDoc(has, t, key, names, keys, pub, date, isbns) ==
    [has |-> has, title |-> t, key |-> key, author_name |-> names,
     author_key |-> keys, publisher |-> pub, publish_date |-> date, isbn |-> isbns]

IsbnDocs ==
    {RawDoc(Present([title |-> t, key |-> key, author_name |-> names,
                     author_key |-> keys, publisher |-> pub, publish_date |-> date,
                     isbn |-> isbns]),
            t[2], key[2], names[2], keys[2], pub[2], date[2], isbns[2]) :
        t \in FieldOpts({TitleAb}),
        key \in FieldOpts({WorkKey}),
        names \in FieldOpts({<<>>, <<NameX>>, <<NameY, NameX>>}),
        keys \in FieldOpts({<<>>, <<OlidK1>>, <<OlidK1, OlidK2>>}),
        pub \in FieldOpts({<<>>, <<PubP, PubQ>>}),
        date \in FieldOpts({<<>>, <<Date1>>}),
        isbns \in FieldOpts(SeqsUpTo({Isbn13, Isbn10, Isbn9}, MaxIsbns))}

\* a further document of the response, after the first
LaterDoc ==
    RawDoc({"title", "key", "isbn"}, Titleab, WorkKey, <<>>, <<>>, <<>>, <<>>, <<Isbn9>>)

\* response.json(): a dict that may lack 'docs'
DataValues ==
    {NoData, [has |-> {"docs"}, docs |-> <<>>]}
        \cup {[has |-> {"docs"}, docs |-> <<d>>] : d \in IsbnDocs}
        \cup {[has |-> {"docs"}, docs |-> <<d, LaterDoc>>] : d \in IsbnDocs}

\* raw documents that differ in their key only, and may have none
KeyRawDocs ==
    {RawDoc({"title"} \cup Present([key |-> key]),
            TitleAb, key[2], <<>>, <<>>, <<>>, <<>>, <<>>) :
        key \in FieldOpts(KeyValues)}

IsbnArgs == {<<48, 45, 49>>, <<32, 49, 50, 32>>}    \* "0-1", " 12 "

\* isbn.replace('-', '').strip()
RECURSIVE RemoveHyphens(_)
RemoveHyphens(s) ==
    IF Len(s) = 0 THEN <<>>
    ELSE IF s[1] = 45 THEN RemoveHyphens(Tail(s))
    ELSE <<s[1]>> \o RemoveHyphens(Tail(s))

RECURSIVE Strip(_)
Strip(s) ==
    IF Len(s) = 0 THEN <<>>
    ELSE IF s[1] = 32 THEN Strip(Tail(s))
    ELSE IF s[Len(s)] = 32 THEN Strip(SubSeq(s, 1, Len(s) - 1))
    ELSE s

CleanIsbn(s) == Strip(RemoveHyphens(s))

\* `not data.get('docs')`
NoDocs(d) == ~("docs" \in d.has) \/ Len(d.docs) = 0

\* Author(name=name): a new Author has a name and no olid attribute
NewAuthor(name) == Author(name, FALSE, None)

\* author.olid = value
SetOlid(a, value) == [a EXCEPT !.has_olid = TRUE, !.olid = Some(value)]

\* an olid test that stops one position early
IsbnAuthorOffByOne(doc, i) ==
    IF "author_key" \in doc.has /\ i < Len(doc.author_key)
    THEN SetOlid(NewAuthor(doc.author_name[i]), doc.author_key[i])
    ELSE NewAuthor(doc.author_name[i])

\* the author at position i (from 1) of author_name: it gets an olid only when
\* 'author_key' is in doc and the position is within author_key
IsbnAuthor(doc, i) ==
    IF "author_key" \in doc.has /\ i <= Len(doc.author_key)
    THEN SetOlid(NewAuthor(doc.author_name[i]), doc.author_key[i])
    ELSE NewAuthor(doc.author_name[i])

\* the loop over enumerate(doc.get('author_name', []))
IsbnAuthors(doc) ==
    IF "author_name" \in doc.has
    THEN [i \in 1..Len(doc.author_name) |-> IsbnAuthor(doc, i)]
    ELSE <<>>

\* `doc.get(name, [''])[0] if doc.get(name) else ''`
FirstOfGet(doc, name, value) ==
    IF name \in doc.has /\ Len(value) > 0 THEN value[1] ELSE <<>>

\* a classification that tests for 10 characters instead of 13
IsbnKindByTen(s) == IF Len(s) = 10 THEN "isbn_10" ELSE "isbn_13"

\* `'isbn_13' if len(isbn) == 13 else 'isbn_10'`
IsbnKind(s) == IF Len(s) = 13 THEN "isbn_13" ELSE "isbn_10"

\* the loop `for isbn in doc['isbn']` over the first n values
RECURSIVE AddIsbns(_, _, _)
AddIsbns(book, isbns, n) ==
    IF n = 0 THEN book
    ELSE AddId(AddIsbns(book, isbns, n - 1), IsbnKind(isbns[n]), isbns[n])

\* Work.search_by_isbn from the first document on: doc['title'] and doc['key']
\* fail with KeyError when the key is missing
IsbnBook(doc) ==
    IF ~("title" \in doc.has) THEN Raised("KeyError")
    ELSE IF ~("key" \in doc.has) THEN Raised("KeyError")
    ELSE LET book == AddId(Book(doc.title, IsbnAuthors(doc),
                                FirstOfGet(doc, "publisher", doc.publisher),
                                FirstOfGet(doc, "publish_date", doc.publish_date)),
                           "olid", LastSegment(doc.key))
         IN  Returned(IF "isbn" \in doc.has
                      THEN AddIsbns(book, doc.isbn, Len(doc.isbn))
                      ELSE book)

IsbnResult(d) ==
    IF NoDocs(d) THEN ReturnNone
    ELSE LET b == IsbnBook(d.docs[1])
         IN  IF b.raised # "" THEN Raise(b.raised) ELSE ReturnBook(b.book)

SearchByIsbnCall(i) ==
    /\ pc = "idle"
    /\ op' = "search_by_isbn"
    /\ isbn' = CleanIsbn(i)
    /\ url' = [NoUrl EXCEPT !.kind = "isbn", !.isbn = CleanIsbn(i)]
    /\ roundTrips' = roundTrips + 1
    /\ httpCalls' = IssueGet(httpCalls)
    /\ pc' = "isbn_wait"
    /\ UNCHANGED <<title, author, limit, failures, results, data, seen_works,
                   deduped_docs, result>>
    /\ UNCHANGED editionsVars

SearchByIsbnResponse(d) ==
    /\ pc = "isbn_wait"
    /\ pc' = "done"
    /\ data' = d
    /\ result' = IsbnResult(d)
    /\ UNCHANGED <<op, title, author, limit, isbn, url, httpCalls, roundTrips, failures,
                   results, seen_works, deduped_docs>>
    /\ UNCHANGED editionsVars

----------------------------------------------------------------------------
(* The request of either call under backoff.on_exception. *)

\* the pending attempt raised and backoff calls the getter again
RequestRetried ==
    /\ pc \in {"search_wait", "isbn_wait"}
    /\ BackoffRetries(httpCalls)
    /\ failures' = failures + 1
    /\ httpCalls' = IssueGet(httpCalls)
    /\ UNCHANGED <<pc, op, title, author, limit, isbn, url, roundTrips, results, data,
                   seen_works, deduped_docs, result>>
    /\ UNCHANGED editionsVars

\* the pending attempt raised and backoff gives up (the attempts are used up,
\* or the error is one it does not retry): the exception reaches the caller
RequestGivenUp ==
    /\ pc \in {"search_wait", "isbn_wait"}
    /\ failures' = failures + 1
    /\ pc' = "done"
    /\ result' = Raise("RequestException")
    /\ UNCHANGED <<op, title, author, limit, isbn, url, httpCalls, roundTrips, results,
                   data, seen_works, deduped_docs>>
    /\ UNCHANGED editionsVars

----------------------------------------------------------------------------
(* Work.editions. *)

OlidW1 == <<79, 76, 49, 87>>     \* "OL1W"
OlidW2 == <<79, 76, 50, 87>>     \* "OL2W"
WorkOlids == {OlidW1, OlidW2}

\* the paths of next-page links
LinkP == <<47, 112>>             \* "/p"
LinkQ == <<47, 113>>             \* "/q"
Links == {LinkP, LinkQ}

\* entries of a page: edition documents, told apart by their key
EntryE1 == <<69, 49>>            \* "E1"
EntryE2 == <<69, 50>>            \* "E2"

\* a page r_json: a dict that may have 'entries' and may have 'links', which
\* may have 'next'; `next` is None for the JSON null
EditionsPage(has, entries, has_next, next) ==
    [has |-> has, entries |-> entries, links |-> [has_next |-> has_next, next |-> next]]

\* the pages the endpoint may answer with
PageValues ==
    {EditionsPage(Present([entries |-> e, links |-> l]), e[2],
                  l[1] /\ l[2][1], IF l[1] THEN l[2][2] ELSE None) :
        e \in FieldOpts({<<>>, <<EntryE1>>, <<EntryE2, EntryE1>>}),
        l \in FieldOpts({<<FALSE, None>>, <<TRUE, None>>}
                            \cup {<<TRUE, Some(link)>> : link \in Links})}

\* f'{self.OL.base_url}/works/{self.olid}/editions.json', as the path after
\* base_url
EditionsUrl(o) ==
    <<47, 119, 111, 114, 107, 115, 47>> \o o
        \o <<47, 101, 100, 105, 116, 105, 111, 110, 115, 46, 106, 115, 111, 110>>

\* self.OL.base_url + next_page_link, as the path after base_url
LinkUrl(link) == link

\* r_json.get('entries', [])
Entries(page) == IF "entries" \in page.has THEN page.entries ELSE <<>>

\* r_json.get('links', {}).get('next')
NextPageLink(page) ==
    IF "links" \in page.has /\ page.links.has_next THEN page.links.next ELSE None

\* an extend that puts the new entries in front
ExtendInFront(list, entries) == entries \o list

\* editions.extend(entries)
Extend(list, entries) == list \o entries

\* self.OL.Edition(**self.OL.Edition.ol_edition_json_to_book_args(ed))
ToEdition(ed) == [edition |-> ed]

ReturnEditions(es) == [kind |-> "Editions", books |-> es, error |-> ""]

\* the property is read: the first page is requested
EditionsCall(o) ==
    /\ pc = "idle"
    /\ op' = "editions"
    /\ self_olid' = o
    /\ requests' = <<EditionsUrl(o)>>
    /\ httpCalls' = IssueGet(httpCalls)
    /\ pc' = "editions_wait"
    /\ UNCHANGED <<pages, editions, result>>
    /\ UNCHANGED searchVars

\* a page arrives: its entries are added, and its next link is requested or,
\* without one, the loop ends and the editions are built and returned.  The
\* chain of pages is at most MaxPages long.
EditionsResponse(page) ==
    /\ pc = "editions_wait"
    /\ Len(pages) + 1 < MaxPages \/ IsNone(NextPageLink(page))
    /\ pages' = Append(pages, page)
    /\ editions' = Extend(editions, Entries(page))
    /\ IF ~IsNone(NextPageLink(page))
       THEN /\ requests' = Append(requests, LinkUrl(Val(NextPageLink(page))))
            /\ httpCalls' = IssueGet(httpCalls)
            /\ UNCHANGED <<pc, result>>
       ELSE /\ pc' = "done"
            /\ result' = ReturnEditions([i \in 1..Len(editions') |-> ToEdition(editions'[i])])
            /\ UNCHANGED <<requests, httpCalls>>
    /\ UNCHANGED <<op, self_olid>>
    /\ UNCHANGED searchVars

----------------------------------------------------------------------------
(* Specifications. *)

Init ==
    /\ pc = "idle"
    /\ op = "none"
    /\ title = None
    /\ author = None
    /\ limit = None
    /\ isbn = <<>>
    /\ url = NoUrl
    /\ httpCalls = 0
    /\ roundTrips = 0
    /\ failures = 0
    /\ results = NoResults
    /\ data = NoData
    /\ seen_works = <<>>
    /\ deduped_docs = <<>>
    /\ result = Pending
    /\ self_olid = <<>>
    /\ requests = <<>>
    /\ pages = <<>>
    /\ editions = <<>>

\* both searches, answered at the first attempt, with responses of at most
\* MaxNormDocs documents
Next ==
    \/ /\ pc = "idle"
       /\ \E t \in TitleArgs, a \in AuthorArgs, l \in LimitArgs : SearchCall(t, a, l)
    \/ /\ pc = "search_wait"
       /\ \E nf \in NumFoundValues, docs \in SeqsUpTo(NormDocs, MaxNormDocs) :
              SearchResponse(nf, docs)
    \/ /\ pc = "idle"
       /\ \E i \in IsbnArgs : SearchByIsbnCall(i)
    \/ /\ pc = "isbn_wait"
       /\ \E d \in DataValues : SearchByIsbnResponse(d)

Spec == Init /\ [][Next]_vars

\* Work.search by title with a limit supplied, with responses that report
\* results and hold at most MaxDocs documents that share titles and authors
NextDedup ==
    \/ /\ pc = "idle"
       /\ \E l \in LimitArgs \ {None} : SearchCall(Some(TitleAb), None, l)
    \/ /\ pc = "search_wait"
       /\ \E nf \in NumFoundValues \ {0}, docs \in SeqsUpTo(DedupDocs, MaxDocs) :
              SearchResponse(nf, docs)

SpecDedup == Init /\ [][NextDedup]_vars

\* Work.search alone
NextSearch ==
    \/ /\ pc = "idle"
       /\ \E t \in TitleArgs, a \in AuthorArgs, l \in LimitArgs : SearchCall(t, a, l)
    \/ /\ pc = "search_wait"
       /\ \E nf \in NumFoundValues, docs \in SeqsUpTo(NormDocs, MaxNormDocs) :
              SearchResponse(nf, docs)

SpecSearch == Init /\ [][NextSearch]_vars

\* Work.search_by_isbn alone
NextIsbn ==
    \/ /\ pc = "idle"
       /\ \E i \in IsbnArgs : SearchByIsbnCall(i)
    \/ /\ pc = "isbn_wait"
       /\ \E d \in DataValues : SearchByIsbnResponse(d)

SpecIsbn == Init /\ [][NextIsbn]_vars

\* Work.search with a limit and Work.search_by_isbn, with responses of one
\* document whose key varies
NextKey ==
    \/ /\ pc = "idle"
       /\ \E l \in 1..MaxLimit : SearchCall(Some(TitleAb), None, Some(l))
    \/ /\ pc = "search_wait"
       /\ \E d \in KeyDocs : SearchResponse(3, <<d>>)
    \/ /\ pc = "idle"
       /\ \E i \in IsbnArgs : SearchByIsbnCall(i)
    \/ /\ pc = "isbn_wait"
       /\ \E d \in KeyRawDocs : SearchByIsbnResponse([has |-> {"docs"}, docs |-> <<d>>])

SpecKey == Init /\ [][NextKey]_vars

\* documents of a response: two of one work and one of another
HttpDocs ==
    {Document({"title", "authors", "key"}, TitleAb,
              <<AuthorDict(NameX, Some(OlidK1))>>, <<>>, <<>>, WorkKey, 0),
     Document({"title", "authors", "key"}, Titleab,
              <<AuthorDict(NameX, Some(OlidK1))>>, <<>>, <<>>, WorkKey, 0),
     Document({"title", "authors", "key"}, TitleAb,
              <<AuthorDict(NameY, None)>>, <<>>, <<>>, WorkKey, 0)}

\* responses to search_by_isbn: without 'docs', with none, one and two documents
HttpData ==
    {NoData,
     [has |-> {"docs"}, docs |-> <<>>],
     [has |-> {"docs"}, docs |-> <<LaterDoc>>],
     [has |-> {"docs"}, docs |-> <<LaterDoc, LaterDoc>>]}

\* every call, with attempts that raise and are retried or given up, and
\* responses with no results, one document, duplicates and distinct works
NextHttp ==
    \/ /\ pc = "idle"
       /\ \E t \in TitleArgs, a \in AuthorArgs, l \in LimitArgs : SearchCall(t, a, l)
    \/ /\ pc = "search_wait"
       /\ \E nf \in NumFoundValues, docs \in SeqsUpTo(HttpDocs, 2) :
              SearchResponse(nf, docs)
    \/ /\ pc = "idle"
       /\ \E i \in IsbnArgs : SearchByIsbnCall(i)
    \/ /\ pc = "isbn_wait"
       /\ \E d \in HttpData : SearchByIsbnResponse(d)
    \/ RequestRetried
    \/ RequestGivenUp

SpecHttp == Init /\ [][NextHttp]_vars

\* Work.editions alone, over chains of at most MaxPages pages
NextEditions ==
    \/ /\ pc = "idle"
       /\ \E o \in WorkOlids : EditionsCall(o)
    \/ /\ pc = "editions_wait"
       /\ \E page \in PageValues : EditionsResponse(page)

\* the endpoint answers every request, and the property is read
SpecEditions == Init /\ [][NextEditions]_vars /\ WF_vars(NextEditions)

----------------------------------------------------------------------------
(* Properties. *)

\* the running call is a search that got past validation and whose response
\* has been handled
SearchAnswered ==
    op = "search" /\ pc = "done" /\ httpCalls > 0 /\ result.error # "RequestException"
\* the running call is a search_by_isbn whose response has been handled
IsbnAnswered == op = "search_by_isbn" /\ pc = "done" /\ result.error # "RequestException"

\* C1: a search whose title and author are each None or '' (any limit)
\* raises ValueError, and no HTTP request has been issued when it does.
C1_InvalidQueryRaisesBeforeRequest ==
    (op = "search" /\ title \in {None, Some(<<>>)} /\ author \in {None, Some(<<>>)})
        => (pc = "done" /\ result = Raise("ValueError") /\ httpCalls = 0)

C1_Witness ==
    /\ op = "search" /\ title = Some(<<>>) /\ author = None /\ limit = Some(MaxLimit)
    /\ result = Raise("ValueError") /\ httpCalls = 0

\* C2: a response without documents makes search_by_isbn and search (with or
\* without a limit) return None, whatever num_found is.
C2_NoDocumentsReturnNone ==
    /\ IsbnAnswered /\ Len(data.docs) = 0 => result = ReturnNone
    /\ SearchAnswered /\ Len(results.docs) = 0 => result = ReturnNone


----------------------------------------------------------------------------
(* The dedup pass, described without the code's key. *)

\* the search ran its dedup pass
PassRan ==
    /\ SearchAnswered
    /\ results.num_found # 0
    /\ limit # None /\ Val(limit) # 0
    /\ result.error # "AttributeError"

\* the search returned a list
ListReturned == SearchAnswered /\ result.kind = "List"

DocTitle(i) == IF "title" \in results.docs[i].has THEN results.docs[i].title ELSE <<>>
DocNames(i) ==
    IF "authors" \in results.docs[i].has
    THEN [k \in 1..Len(results.docs[i].authors) |-> results.docs[i].authors[k].name]
    ELSE <<>>

Elems(s) == {s[k] : k \in 1..Len(s)}
Count(x, s) == Cardinality({k \in 1..Len(s) : s[k] = x})
SameMultiset(a, b) == \A x \in Elems(a) \cup Elems(b) : Count(x, a) = Count(x, b)

\* documents i and j have the same title up to case and the same author names
\* with the same multiplicities
SameWork(i, j) ==
    Lower(DocTitle(i)) = Lower(DocTitle(j)) /\ SameMultiset(DocNames(i), DocNames(j))
\* ... the same title up to case and the same set of author names
SameTitleAndNameSet(i, j) ==
    Lower(DocTitle(i)) = Lower(DocTitle(j)) /\ Elems(DocNames(i)) = Elems(DocNames(j))

\* document i is the first of its work in the docs list
FirstOfWork(i) == \A m \in 1..(i - 1) : ~SameWork(m, i)
\* the position of the first document of i's work
FirstPos(i) == CHOOSE m \in 1..i : SameWork(m, i) /\ FirstOfWork(m)
\* the number of distinct works that occur up to the first occurrence of i's
WorkRank(i) == Cardinality({m \in 1..FirstPos(i) : FirstOfWork(m)})
\* the returned records that come from a document of i's work
RecordsOfWork(i) == {k \in 1..Len(deduped_docs) : SameWork(deduped_docs[k], i)}

\* the statement of C3 as claimed: two documents with the same title up to
\* case and the same set of author names give exactly one returned record.
C3_SameSetExactlyOneRecord ==
    ListReturned =>
        \A i, j \in 1..Len(results.docs) :
            (i < j /\ SameTitleAndNameSet(i, j)) =>
                Cardinality({k \in 1..Len(deduped_docs) :
                                SameTitleAndNameSet(deduped_docs[k], i)}) = 1

\* C3 (amended): in a search with a limit that returns a list, two documents
\* whose titles are equal after lowercasing and whose author names are equal
\* with multiplicities give exactly one returned record when their work is
\* among the first `limit` distinct works of the docs list, and none otherwise,
\* wherever the two documents stand in the list.
C3_SameWorkOneRecordWithinLimit ==
    ListReturned =>
        /\ Len(result.books) = Len(deduped_docs)
        /\ \A i, j \in 1..Len(results.docs) :
               (i < j /\ SameWork(i, j)) =>
                   Cardinality(RecordsOfWork(i)) =
                       IF WorkRank(i) <= Val(limit) THEN 1 ELSE 0

C3_Witness ==
    /\ ListReturned /\ Len(results.docs) = 3 /\ limit = Some(2)
    /\ ~SameWork(1, 2) /\ SameWork(2, 3)
    /\ DocTitle(2) # DocTitle(3)
    /\ Len(result.books) = 2

\* the statement of C4 as claimed: two documents with the same title whose
\* author names are a permutation of each other have the same key and give
\* one returned record.
C4_PermutedAuthorsOneRecord ==
    ListReturned =>
        \A i, j \in 1..Len(results.docs) :
            (i < j /\ DocTitle(i) = DocTitle(j) /\ DocNames(i) # DocNames(j)
                   /\ SameMultiset(DocNames(i), DocNames(j))) =>
                /\ DedupKey(results.docs[i]) = DedupKey(results.docs[j])
                /\ Cardinality(RecordsOfWork(i)) = 1

\* C4 (amended): two documents with the same title whose author names are a
\* permutation of each other have the same dedup key, are kept as one entry of
\* seen_works, and give one returned record when that key is among the first
\* `limit` distinct keys and none otherwise.
C4_PermutedAuthorsSameKey ==
    PassRan =>
        \A i, j \in 1..Len(results.docs) :
            (i < j /\ DocTitle(i) = DocTitle(j) /\ DocNames(i) # DocNames(j)
                   /\ SameMultiset(DocNames(i), DocNames(j))) =>
                /\ DedupKey(results.docs[i]) = DedupKey(results.docs[j])
                /\ Cardinality({k \in 1..Len(seen_works) :
                                   seen_works[k].key = DedupKey(results.docs[i])}) = 1
                /\ ListReturned =>
                       Cardinality({k \in 1..Len(result.books) :
                                       SameWork(deduped_docs[k], j)}) =
                           IF WorkRank(j) <= Val(limit) THEN 1 ELSE 0

C4_Witness ==
    /\ ListReturned /\ Len(results.docs) = 2 /\ limit = Some(2)
    /\ DocTitle(1) = DocTitle(2)
    /\ DocNames(1) = <<NameX, NameY>> /\ DocNames(2) = <<NameY, NameX>>
    /\ Len(result.books) = 1

\* C5: after the dedup pass, the document kept for a key is the earliest of
\* the documents with that key that have the largest attribute count, and
\* every key of the docs list is kept exactly once.
C5_EarliestMostCompleteKept ==
    PassRan =>
        /\ \A i \in 1..Len(results.docs) :
               Cardinality({k \in 1..Len(seen_works) :
                               seen_works[k].key = DedupKey(results.docs[i])}) = 1
        /\ \A k \in 1..Len(seen_works) :
               LET group == {i \in 1..Len(results.docs) :
                                DedupKey(results.docs[i]) = seen_works[k].key}
                   best == {i \in group :
                               \A m \in group :
                                   AttrCount(results.docs[m]) <= AttrCount(results.docs[i])}
               IN  /\ seen_works[k].doc \in best
                   /\ \A i \in best : seen_works[k].doc <= i

C5_Witness ==
    /\ PassRan /\ Len(results.docs) = 3 /\ Len(seen_works) = 1
    /\ AttrCount(results.docs[1]) < AttrCount(results.docs[2])
    /\ AttrCount(results.docs[2]) = AttrCount(results.docs[3])
    /\ seen_works[1].doc = 2


\* C6: a search with a limit supplied (any value) whose response reports at
\* least one result returns a list of at most `limit` records, in the order in
\* which their keys first occurred in the docs list.
C6_AnyLimitGivesOrderedListWithinLimit ==
    (SearchAnswered /\ limit # None /\ results.num_found >= 1 /\ Len(results.docs) >= 1)
        => /\ result.kind = "List"
           /\ Len(result.books) <= Val(limit)
           /\ \A a, b \in 1..Len(deduped_docs) :
                  a < b => FirstPos(deduped_docs[a]) < FirstPos(deduped_docs[b])

\* the least of two numbers
Min(a, b) == IF a < b THEN a ELSE b
\* the number of distinct works in the docs list
DistinctWorks == Cardinality({i \in 1..Len(results.docs) : FirstOfWork(i)})

\* C14: the list returned by a search with a positive limit holds no two
\* records that come from documents with the same lowercased title and the
\* same sorted author names, and its length is the least of the limit and the
\* number of distinct such keys in the docs list.
C14_DistinctKeysMinLength ==
    (ListReturned /\ limit # None /\ Val(limit) > 0) =>
        /\ Len(result.books) = Len(deduped_docs)
        /\ \A a, b \in 1..Len(deduped_docs) :
               a # b =>
                   /\ ~SameWork(deduped_docs[a], deduped_docs[b])
                   /\ <<Lower(DocTitle(deduped_docs[a])), Sorted(DocNames(deduped_docs[a]))>>
                          # <<Lower(DocTitle(deduped_docs[b])), Sorted(DocNames(deduped_docs[b]))>>
        /\ Len(result.books) = Min(Val(limit), DistinctWorks)

C14_Witness ==
    /\ ListReturned /\ limit = Some(2) /\ Len(results.docs) = 3
    /\ SameWork(1, 3) /\ ~SameWork(1, 2)
    /\ DistinctWorks = 2 /\ Len(result.books) = 2
    /\ deduped_docs = <<3, 2>>

----------------------------------------------------------------------------
(* Work.search_by_isbn: the book it returns. *)

\* the first document of the response
FirstDoc == data.docs[1]
IsbnBookReturned == IsbnAnswered /\ result.kind = "Book"
\* search_by_isbn got a response that has documents
IsbnNormalized == IsbnAnswered /\ "docs" \in data.has /\ Len(data.docs) > 0

Is13(s) == Len(s) = 13
IsNot13(s) == Len(s) # 13

\* C7: the book returned by search_by_isbn has under isbn_13 the values of the
\* first document's isbn array that are 13 long and under isbn_10 all its other
\* values, each list in the order of the array, with nothing dropped or merged.
C7_IsbnsFiledByLength ==
    IsbnBookReturned =>
        LET isbns == IF "isbn" \in FirstDoc.has THEN FirstDoc.isbn ELSE <<>>
            ids == result.books[1].identifiers
        IN  /\ ids.isbn_13 = SelectSeq(isbns, Is13)
            /\ ids.isbn_10 = SelectSeq(isbns, IsNot13)

C7_Witness ==
    /\ IsbnBookReturned
    /\ "isbn" \in FirstDoc.has /\ FirstDoc.isbn = <<Isbn10, Isbn9>>
    /\ result.books[1].identifiers.isbn_10 = <<Isbn10, Isbn9>>
    /\ result.books[1].identifiers.isbn_13 = <<>>

\* C8: the authors of the book returned by search_by_isbn are the names of
\* author_name, one author per name in the same order; the author at a position
\* within author_key has that key as olid, every other author has no olid
\* attribute.
C8_AuthorsAlignedWithNames ==
    IsbnBookReturned =>
        LET names == IF "author_name" \in FirstDoc.has THEN FirstDoc.author_name ELSE <<>>
            authors == result.books[1].authors
        IN  /\ Len(authors) = Len(names)
            /\ \A i \in 1..Len(names) :
                   /\ authors[i].name = names[i]
                   /\ IF "author_key" \in FirstDoc.has /\ i <= Len(FirstDoc.author_key)
                      THEN authors[i].has_olid /\ authors[i].olid = Some(FirstDoc.author_key[i])
                      ELSE ~authors[i].has_olid

C8_Witness ==
    /\ IsbnBookReturned
    /\ "author_name" \in FirstDoc.has /\ FirstDoc.author_name = <<NameY, NameX>>
    /\ "author_key" \in FirstDoc.has /\ FirstDoc.author_key = <<OlidK1>>
    /\ result.books[1].authors[1].olid = Some(OlidK1)
    /\ ~result.books[1].authors[2].has_olid

\* C9: a document without a title is normalized, without an exception, to a
\* book whose title is '', by search_by_isbn and by _doc_to_book in search.
C9_MissingTitleGivesEmptyTitle ==
    /\ (IsbnNormalized /\ ~("title" \in FirstDoc.has))
           => (result.kind = "Book" /\ result.books[1].title = <<>>)
    /\ PassRan =>
           \A k \in 1..Len(deduped_docs) :
               ~("title" \in results.docs[deduped_docs[k]].has)
                   => (result.kind = "List" /\ result.books[k].title = <<>>)

\* the first element of an array that is there and not empty, '' otherwise
FirstOrEmpty(doc, name) ==
    IF name \in doc.has /\ Len(doc[name]) > 0 THEN doc[name][1] ELSE <<>>

\* C10: publisher and publish_date are normalized, without an exception, to
\* the first element of the array when it is there and not empty and to ''
\* when it is absent or empty, by search_by_isbn and by _doc_to_book.
C10_FirstElementOrEmpty ==
    /\ IsbnNormalized =>
           /\ result.kind = "Book"
           /\ \A name \in {"publisher", "publish_date"} :
                  result.books[1][name] = FirstOrEmpty(FirstDoc, name)
    /\ PassRan =>
           \A k \in 1..Len(deduped_docs) :
               /\ result.kind = "List"
               /\ \A name \in {"publisher", "publish_date"} :
                      result.books[k][name] =
                          FirstOrEmpty(results.docs[deduped_docs[k]], name)

----------------------------------------------------------------------------
(* The work identifier. *)

\* s is what follows the last '/' of key: it ends key, holds no '/', and is
\* all of key or stands right after a '/'
IsLastSegment(s, key) ==
    /\ Len(s) <= Len(key)
    /\ SubSeq(key, Len(key) - Len(s) + 1, Len(key)) = s
    /\ \A k \in 1..Len(s) : s[k] # 47
    /\ Len(s) = Len(key) \/ key[Len(key) - Len(s)] = 47

\* the olid identifiers of `book` are what the key of `doc` asks for
OlidFromKey(book, doc) ==
    IF "key" \in doc.has
    THEN /\ Len(book.identifiers.olid) = 1
         /\ IsLastSegment(book.identifiers.olid[1], doc.key)
    ELSE book.identifiers.olid = <<>>

\* the part of C11 about Work._doc_to_book: every record of the returned list
\* has the last segment of its document's key as olid, and none without a key
C11_DocToBookOlid ==
    PassRan =>
        /\ result.kind = "List"
        /\ \A k \in 1..Len(deduped_docs) :
               OlidFromKey(result.books[k], results.docs[deduped_docs[k]])

\* C11: on both normalization paths (search_by_isbn, and _doc_to_book in a
\* search with a limit) a document with a key gives a book whose olid
\* identifier is what follows the last '/' of the key, and a document without
\* a key gives, without an exception, a book with no olid identifier.
C11_KeyGivesOlidElseNone ==
    /\ IsbnNormalized =>
           /\ result.kind = "Book"
           /\ OlidFromKey(result.books[1], FirstDoc)
    /\ C11_DocToBookOlid

----------------------------------------------------------------------------
(* The requests of a call. *)

\* the call got past its validation (search_by_isbn has none)
PastValidation ==
    op = "search_by_isbn" \/ (op = "search" /\ result.error # "ValueError")
\* the call ended with the exception of its last attempt
GaveUp == pc = "done" /\ result.error = "RequestException"
\* the call ended after a response
Answered == SearchAnswered \/ IsbnAnswered

\* the statement of C12 as claimed: a call that got past validation and has
\* ended has issued exactly one HTTP request.
C12_ExactlyOneRequest ==
    (PastValidation /\ pc = "done") => httpCalls = 1

\* C12 (amended): a call that fails validation issues no request; any other
\* call calls its backoff-wrapped getter exactly once, which issues one HTTP
\* request per attempt: one request when no attempt raised, whatever the
\* response holds, one more for every attempt that raised and was retried, and
\* never more than max_tries; nothing is requested once a response is there.
C12_OneRoundTripRetriedOnlyOnFailure ==
    /\ (op = "search" /\ ~PastValidation) => (httpCalls = 0 /\ roundTrips = 0)
    /\ PastValidation =>
           /\ roundTrips = 1
           /\ httpCalls >= 1 /\ httpCalls <= MaxTries
           /\ httpCalls = (IF GaveUp THEN failures ELSE failures + 1)
           /\ (Answered /\ failures = 0) => httpCalls = 1

C12_Witness ==
    /\ SearchAnswered /\ failures = 0 /\ httpCalls = 1 /\ roundTrips = 1
    /\ limit = Some(MaxLimit) /\ Len(results.docs) = 2 /\ Len(result.books) = 1

----------------------------------------------------------------------------
(* The traversal of Work.editions. *)

EditionsStarted == op = "editions"
EditionsDone == op = "editions" /\ pc = "done"

\* the page carries a next link
CarriesNext(page) ==
    "links" \in page.has /\ page.links.has_next /\ page.links.next # None
\* the entries of a page, none when it has no 'entries'
PageEntries(page) == IF "entries" \in page.has THEN page.entries ELSE <<>>
\* the entries of the pages ps, page after page
RECURSIVE AllEntries(_)
AllEntries(ps) ==
    IF Len(ps) = 0 THEN <<>> ELSE PageEntries(Head(ps)) \o AllEntries(Tail(ps))

\* what holds of a traversal at every moment: one request is outstanding until
\* the end and none after it; the first request is for the first page and the
\* request after page i is for the link of page i; every page before the last
\* received carries a link; at the end the last page carries none, there are
\* as many requests as pages, and the entries of all pages are returned in
\* page order, one edition per entry
EditionsTraversal ==
    EditionsStarted =>
        /\ Len(requests) = Len(pages) + (IF pc = "done" THEN 0 ELSE 1)
        /\ requests[1] = EditionsUrl(self_olid)
        /\ \A i \in 1..Len(pages) :
               i < Len(requests) =>
                   /\ CarriesNext(pages[i])
                   /\ requests[i + 1] = pages[i].links.next[1]
        /\ editions = AllEntries(pages)
        /\ pc = "done" =>
               /\ Len(pages) >= 1
               /\ ~CarriesNext(pages[Len(pages)])
               /\ httpCalls = Len(pages)
               /\ result.kind = "Editions"
               /\ Len(result.books) = Len(AllEntries(pages))
               /\ \A k \in 1..Len(result.books) :
                      result.books[k] = ToEdition(AllEntries(pages)[k])

\* C13: Work.editions requests the first page and then the link of each page
\* in turn, one request at a time, and stops at the first page without a next
\* link: over a chain of n pages it issues exactly n requests, ends, and
\* returns the entries of all pages in page order.
C13_EditionsFollowsChainAndEnds ==
    /\ []EditionsTraversal
    /\ EditionsStarted ~> EditionsDone

C13_Witness ==
    /\ EditionsDone
    /\ requests = <<EditionsUrl(OlidW1), LinkQ, LinkP>>
    /\ Len(pages) = 3 /\ httpCalls = 3
    /\ PageEntries(pages[1]) = <<EntryE1>>
    /\ ~("entries" \in pages[2].has)
    /\ PageEntries(pages[3]) = <<EntryE2, EntryE1>>
    /\ Len(result.books) = 3

=============================================================================
